---------------------------- MODULE Spec2Model ----------------------------
(***************************************************************************)
(* CampusKart v3: the order-placement and inventory engine of              *)
(* src/v3/app.py over the SQLite schema and triggers of src/v3/utils.py.   *)
(*                                                                         *)
(* The database is the pair (items, orders).  Every request runs on a      *)
(* connection of its own (get_db); a connection's uncommitted writes live  *)
(* in (txItems, txOrders) while it holds SQLite's write lock (writer) and  *)
(* reach the database at commit.  A handler is a sequence of steps, one    *)
(* per SQL statement group, so that requests on several connections can    *)
(* interleave.  Under Spec and SpecAnyQty a single connection runs the     *)
(* requests one at a time; under SpecConc two connections each run one     *)
(* place_order against the same item.                                      *)
(***************************************************************************)
EXTENDS Integers, Sequences, FiniteSets, TLC

\* ------------------------------------------------------------------ bounds
MaxQty == 2
MaxCart == 2
MaxOrders == 2
MaxListings == 2

\* ------------------------------------------------------------- the domain
Users == {1, 2}
ItemIds == {3, 4}
OrderIds == 1..MaxOrders
SeqConns == {1}
Conns == {1, 2}

\* request.form.get / request.get_json values: None or a string
None == [isNone |-> TRUE, s |-> ""]
Str(s) == [isNone |-> FALSE, s |-> s]

\* the codes generate_hashed_otp can draw, and what an admin can submit
OtpCodes == {"1234"}
SubmittedOtps == {None, Str(""), Str("1234"), Str("4321")}

\* quantities a cart line can carry: int(item.get("qty", 1)) is any integer
AnyQty == (0 - 1)..MaxQty
PosQty == 1..MaxQty

\* items, orders        the committed tables
\* writer               the connection holding the write lock, 0 for none
\* txItems, txOrders    the tables as the writer's open transaction sees them
\* req, res             per connection: the request in flight and its response
\* preItems, preOrders  per connection: the tables when its request arrived
\* placed               history: the latest one-line placement and the item
\*                      as it was before it, until another request changes the tables
VARIABLES items, orders, writer, txItems, txOrders, req, res, preItems, preOrders, placed

vars == <<items, orders, writer, txItems, txOrders, req, res, preItems, preOrders, placed>>

db == <<items, orders, writer, txItems, txOrders>>

\* ------------------------------------------------------------ OTP helpers
\* hashlib.sha256(code.encode()).hexdigest()[:8] of the strings the model uses
Sha256Hex8(s) ==
    CASE s = "1234" -> "03ac6742"
      [] s = "4321" -> "fe2592b4"
      [] s = "5678" -> "f8638b97"
      [] s = "1000" -> "40510175"
      [] s = "1235" -> "310ced37"
      [] s = "9999" -> "888df25a"
      [] s = "" -> "e3b0c442"
      [] OTHER -> "dc937b59"

\* a generator whose hash is not that of the code it hands out
HashOfAnotherCode == {[otp |-> c, hashed |-> Sha256Hex8("")] : c \in OtpCodes}

generate_hashed_otp == {[otp |-> c, hashed |-> Sha256Hex8(c)] : c \in OtpCodes}

\* a check that hashes whatever it is given, an empty code included
HashesEmptyCodes(submitted_otp, stored_hash) ==
    Sha256Hex8(submitted_otp.s) = stored_hash

\* a check that accepts every non-empty code
AnyCodePasses(submitted_otp, stored_hash) ==
    ~(submitted_otp.isNone \/ submitted_otp.s = "" \/ stored_hash = "")

check_otp(submitted_otp, stored_hash) ==
    IF submitted_otp.isNone \/ submitted_otp.s = "" \/ stored_hash = ""
    THEN FALSE
    ELSE Sha256Hex8(submitted_otp.s) = stored_hash

\* --------------------------------------------------------- schema, triggers
\* two of the listings of seed_data: the Study Lamp of user 1 and the
\* Acoustic Guitar of user 2, as INSERT INTO items leaves them
SeedItems ==
    (3 :> [seller_id |-> 1, price |-> 450, quantity |-> 2, status |-> "available"])
    @@ (4 :> [seller_id |-> 2, price |-> 4000, quantity |-> 1, status |-> "available"])

OrderRow(order_id, buyer_id, seller_id, item_id, price, quantity_ordered, otp, hashed_otp) ==
    [order_id |-> order_id, buyer_id |-> buyer_id, seller_id |-> seller_id,
     item_id |-> item_id, price |-> price, quantity_ordered |-> quantity_ordered,
     order_status |-> "pending", otp |-> otp, hashed_otp |-> hashed_otp]

OrderIndexes(O, order_id) == {k \in 1..Len(O) : O[k].order_id = order_id}

\* the schema without the self-purchase trigger
NoSelfPurchaseTrigger(row) == FALSE

\* BEFORE INSERT ON orders WHEN NEW.buyer_id = NEW.seller_id: RAISE(ABORT)
prevent_self_purchase(row) == row.buyer_id = row.seller_id

\* the schema without the stock trigger
NoStockTrigger(I, row) == FALSE

\* BEFORE INSERT ON orders: RAISE(ABORT) when the item's quantity is below
\* NEW.quantity_ordered; for a missing item the subquery is NULL and the
\* CASE does not raise
check_stock_before_order(I, row) ==
    /\ row.item_id \in DOMAIN I
    /\ I[row.item_id].quantity < row.quantity_ordered

\* an orders table without its primary key
NoPrimaryKey(O, row) == FALSE

\* order_id TEXT PRIMARY KEY
order_id_taken(O, row) == OrderIndexes(O, row.order_id) # {}

\* the messages with which INSERT INTO orders can abort (sqlite3.IntegrityError);
\* SQLite leaves the firing order of the two BEFORE triggers undefined, the
\* key is checked after them
InsertAborts(I, O, row) ==
    LET before == (IF prevent_self_purchase(row) THEN {"self_purchase"} ELSE {})
                  \cup (IF check_stock_before_order(I, row) THEN {"insufficient_stock"} ELSE {})
    IN  IF before # {} THEN before
        ELSE IF order_id_taken(O, row) THEN {"duplicate_order_id"} ELSE {}

\* a stock trigger that marks the item sold only below 0
SoldOnlyBelowZero(I, row) ==
    IF row.item_id \notin DOMAIN I THEN I
    ELSE LET q == I[row.item_id].quantity - row.quantity_ordered
         IN  [I EXCEPT ![row.item_id].quantity = q,
                       ![row.item_id].status = IF q < 0 THEN "sold" ELSE @]

\* the stock trigger without its second UPDATE: the status is never 'sold'
DecrementOnly(I, row) ==
    IF row.item_id \notin DOMAIN I THEN I
    ELSE [I EXCEPT ![row.item_id].quantity = @ - row.quantity_ordered]

\* a stock trigger limited to rows that are not inserted as 'cancelled'
DecrementUnlessCancelled(I, row) ==
    IF row.item_id \notin DOMAIN I \/ row.order_status = "cancelled" THEN I
    ELSE LET q == I[row.item_id].quantity - row.quantity_ordered
         IN  [I EXCEPT ![row.item_id].quantity = q,
                       ![row.item_id].status = IF q <= 0 THEN "sold" ELSE @]

\* AFTER INSERT ON orders: quantity = quantity - NEW.quantity_ordered, then
\* status = 'sold' where quantity <= 0
after_order_insert_update_item_stock(I, row) ==
    IF row.item_id \notin DOMAIN I THEN I
    ELSE LET q == I[row.item_id].quantity - row.quantity_ordered
         IN  [I EXCEPT ![row.item_id].quantity = q,
                       ![row.item_id].status = IF q <= 0 THEN "sold" ELSE @]

\* a delete trigger without its WHEN clause
RestockOnEveryDelete(I, old) ==
    IF old.item_id \notin DOMAIN I THEN I
    ELSE [I EXCEPT ![old.item_id].quantity = @ + old.quantity_ordered,
                   ![old.item_id].status = "available"]

\* AFTER DELETE ON orders WHEN OLD.order_status != 'cancelled'
after_order_delete_restock_item(I, old) ==
    IF old.order_status = "cancelled" \/ old.item_id \notin DOMAIN I THEN I
    ELSE [I EXCEPT ![old.item_id].quantity = @ + old.quantity_ordered,
                   ![old.item_id].status = "available"]

\* a delete lock that only pending orders hold
OnlyPendingBlocks(O, item_id) ==
    \E k \in 1..Len(O) : O[k].item_id = item_id /\ O[k].order_status = "pending"

\* BEFORE DELETE ON items: RAISE(ABORT) where a non-cancelled order of the item exists
prevent_item_delete_if_ordered(O, item_id) ==
    \E k \in 1..Len(O) : O[k].item_id = item_id /\ O[k].order_status # "cancelled"

\* ------------------------------------------------------------ connections
Idle == [op |-> "none", pc |-> "idle", user |-> 0, oid |-> 0, item |-> 0, qty |-> 0,
         otp |-> None, seller |-> 0, price |-> 0, n |-> 0, asked |-> 0,
         shape |-> "", lines |-> <<>>]

NoPlaced == [oid |-> 0, buyer |-> 0, item |-> 0, qty |-> 0, quantity |-> 0, status |-> ""]

NoRes == [code |-> 0, outcome |-> "none", msg |-> ""]

\* a JSON body {"ok": ...} / {"error": ...} with its HTTP status, or a redirect
\* carrying a flash category
Json(code, msg) == [code |-> code, outcome |-> IF code = 200 \/ code = 204 THEN "ok" ELSE "error", msg |-> msg]
Flash(category, msg) == [code |-> 302, outcome |-> category, msg |-> msg]

\* the receipts a response body carries: the bodies of app.py have the keys
\* ok, message and error, and none for receipts
Receipts(r) == IF "receipts" \in DOMAIN r THEN r.receipts ELSE <<>>

Free(c) == req[c].pc = "idle"

\* a read that sees what the open transaction of another connection has written
DirtyItems(c) == txItems

\* the rows and items a statement on connection c reads
ViewItems(c) == IF writer = c THEN txItems ELSE items
ViewOrders(c) == IF writer = c THEN txOrders ELSE orders

\* a request starts on a fresh connection: get_db()
Begin(c, r) ==
    /\ Free(c)
    /\ req' = [req EXCEPT ![c] = r]
    /\ res' = [res EXCEPT ![c] = NoRes]
    /\ preItems' = [preItems EXCEPT ![c] = items]
    /\ preOrders' = [preOrders EXCEPT ![c] = orders]
    /\ UNCHANGED placed

\* a handler that answers within the step that starts it
Answer(c, r, result) ==
    /\ Free(c)
    /\ req' = [req EXCEPT ![c] = [r EXCEPT !.pc = "done"]]
    /\ res' = [res EXCEPT ![c] = result]
    /\ preItems' = [preItems EXCEPT ![c] = items]
    /\ preOrders' = [preOrders EXCEPT ![c] = orders]
    /\ UNCHANGED placed

\* the handler returns: the response, the connection closed
Finish(c, r) ==
    /\ req' = [req EXCEPT ![c].pc = "done", ![c].seller = 0, ![c].price = 0]
    /\ res' = [res EXCEPT ![c] = r]
    /\ UNCHANGED <<preItems, preOrders, placed>>

\* the response has been delivered; the connection is gone and the client can
\* send its next request
Return(c) ==
    /\ req[c].pc = "done"
    /\ req' = [req EXCEPT ![c] = Idle]
    /\ res' = [res EXCEPT ![c] = NoRes]
    /\ preItems' = [preItems EXCEPT ![c] = SeedItems]
    /\ preOrders' = [preOrders EXCEPT ![c] = <<>>]
    /\ placed' = IF req[c].op # "place_order" /\ <<items, orders>> # <<preItems[c], preOrders[c]>>
                 THEN NoPlaced ELSE placed
    /\ UNCHANGED db

\* conn.commit() by the connection that wrote I and O
Commit(I, O) ==
    /\ items' = I /\ orders' = O
    /\ txItems' = I /\ txOrders' = O
    /\ writer' = 0

\* a failure path that keeps what the transaction had written
CommitOnFailure(c) ==
    IF writer = c
    THEN Commit(txItems, txOrders)
    ELSE UNCHANGED db

\* conn.rollback(), or close() of a connection with an open transaction
Rollback(c) ==
    IF writer = c
    THEN /\ txItems' = items /\ txOrders' = orders /\ writer' = 0
         /\ UNCHANGED <<items, orders>>
    ELSE UNCHANGED db

\* the first write of a transaction takes the write lock
CanWrite(c) == writer \in {0, c}

\* ------------------------------------------------------------- place_order
\* what data.get("cart") can be: a list of lines; a falsy value (missing,
\* null, [], "", 0, {}); a truthy value that is not a list of objects (a
\* string, a number, an object)
CartShapes == {"list", "empty", "malformed"}

\* the answer of Flask to an exception no handler catches
ServerError == [code |-> 500, outcome |-> "error", msg |-> "Internal Server Error"]

\* lines 314-322: the cart is read; `not cart` refuses a falsy cart; iterating
\* any other value that is not a list of objects raises TypeError or
\* AttributeError, which line 341 does not catch
PlaceOrderBegin(c, buyers, carts) ==
    \E buyer \in buyers, shape \in carts :
        LET r == [Idle EXCEPT !.op = "place_order", !.user = buyer, !.shape = shape]
        IN  /\ CASE shape = "empty" -> Answer(c, r, Json(400, "Cart is invalid or empty"))
                 [] shape = "malformed" -> Answer(c, r, ServerError)
                 [] OTHER -> Begin(c, [r EXCEPT !.pc = "line"])
            /\ UNCHANGED db

\* the SELECT of line 326
SelectAvailable(I, item_id, quantity_ordered) ==
    /\ item_id \in DOMAIN I
    /\ I[item_id].status = "available"
    /\ I[item_id].quantity >= quantity_ordered

\* lines 322-328: the next cart line and its stock SELECT
PlaceOrderSelect(c, lineItems, lineQtys) ==
    /\ req[c].op = "place_order" /\ req[c].pc = "line"
    /\ req[c].n < MaxCart
    /\ \E item_id \in lineItems, quantity_ordered \in lineQtys :
          IF SelectAvailable(ViewItems(c), item_id, quantity_ordered)
          THEN /\ req' = [req EXCEPT ![c].pc = "insert", ![c].item = item_id,
                                     ![c].qty = quantity_ordered,
                                     ![c].asked = @ + quantity_ordered,
                                     ![c].lines = Append(@, [id |-> item_id, qty |-> quantity_ordered]),
                                     ![c].seller = ViewItems(c)[item_id].seller_id,
                                     ![c].price = ViewItems(c)[item_id].price]
               /\ UNCHANGED <<db, res, preItems, preOrders, placed>>
          ELSE \* ValueError: `with conn` rolls back, the handler answers 400
               /\ req' = [req EXCEPT ![c].pc = "done", ![c].item = item_id,
                                     ![c].qty = quantity_ordered,
                                     ![c].asked = @ + quantity_ordered,
                                     ![c].lines = Append(@, [id |-> item_id, qty |-> quantity_ordered])]
               /\ res' = [res EXCEPT ![c] = Json(400, "out of stock or unavailable")]
               /\ Rollback(c)
               /\ UNCHANGED <<preItems, preOrders, placed>>

\* sqlite3.IntegrityError out of the INSERT: `with conn` rolls the whole
\* transaction back, line 342 answers 400
PlaceOrderAbort(c, msg) ==
    /\ Finish(c, Json(400, msg))
    /\ Rollback(c)

\* lines 330-340: INSERT INTO orders with its triggers
PlaceOrderInsert(c) ==
    /\ req[c].op = "place_order" /\ req[c].pc = "insert"
    /\ CanWrite(c)
    /\ \E order_id \in OrderIds, code \in generate_hashed_otp :
          LET r == req[c]
              row == OrderRow(order_id, r.user, r.seller, r.item, r.price * r.qty,
                              r.qty, code.otp, code.hashed)
              aborts == InsertAborts(ViewItems(c), ViewOrders(c), row)
          IN  IF aborts # {}
              THEN \E msg \in aborts : PlaceOrderAbort(c, msg)
              ELSE /\ txOrders' = Append(ViewOrders(c), row)
                   /\ txItems' = after_order_insert_update_item_stock(ViewItems(c), row)
                   /\ writer' = c
                   /\ req' = [req EXCEPT ![c].pc = "line", ![c].n = @ + 1,
                                         ![c].seller = 0, ![c].price = 0]
                   /\ UNCHANGED <<items, orders, res, preItems, preOrders, placed>>

\* the loop ends: `with conn` commits, line 346 answers ok
PlaceOrderCommit(c) ==
    /\ req[c].op = "place_order" /\ req[c].pc = "line"
    /\ req[c].n >= 1
    /\ Commit(ViewItems(c), ViewOrders(c))
    /\ req' = [req EXCEPT ![c].pc = "done"]
    /\ res' = [res EXCEPT ![c] = Json(200, "Order placed successfully!")]
    /\ placed' = IF req[c].n = 1
                 THEN [oid |-> ViewOrders(c)[Len(ViewOrders(c))].order_id,
                       buyer |-> req[c].user, item |-> req[c].item, qty |-> req[c].qty,
                       quantity |-> preItems[c][req[c].item].quantity,
                       status |-> preItems[c][req[c].item].status]
                 ELSE NoPlaced
    /\ UNCHANGED <<preItems, preOrders>>

\* sqlite3.OperationalError: database is locked, when another connection
\* holds the write lock for the whole busy timeout; line 341 does not catch
\* it, `with conn` rolls back and the request answers 500
PlaceOrderBusy(c) ==
    /\ req[c].op = "place_order" /\ req[c].pc = "insert"
    /\ ~CanWrite(c)
    /\ Finish(c, Json(500, "database is locked"))
    /\ Rollback(c)

place_order(c, buyers, lineItems, lineQtys) ==
    \/ PlaceOrderBegin(c, buyers, CartShapes)
    \/ PlaceOrderSelect(c, lineItems, lineQtys)
    \/ PlaceOrderInsert(c)
    \/ PlaceOrderCommit(c)

\* an UPDATE of the status that also recomputes the price
RepricingUpdate(O, order_id, from, s) ==
    [k \in 1..Len(O) |->
        IF O[k].order_id = order_id /\ O[k].order_status \in from
        THEN [O[k] EXCEPT !.order_status = s, !.price = 0] ELSE O[k]]

\* an UPDATE of the status that matches no row
UpdateNothing(O, order_id, from, s) == O

\* an UPDATE of the status without its WHERE order_id = ?
UpdateEveryOrder(O, order_id, from, s) ==
    [k \in 1..Len(O) |->
        IF O[k].order_status \in from THEN [O[k] EXCEPT !.order_status = s] ELSE O[k]]

\* UPDATE orders SET order_status = s WHERE order_id = ? [AND order_status IN from]
SetOrderStatus(O, order_id, from, s) ==
    [k \in 1..Len(O) |->
        IF O[k].order_id = order_id /\ O[k].order_status \in from
        THEN [O[k] EXCEPT !.order_status = s] ELSE O[k]]

OrderStatuses == {"pending", "in_transit", "completed", "cancelled"}

\* ------------------------------------------------------------ cancel_order
\* a check that lets only pending orders be cancelled
OnlyPendingCancellable == {"pending"}

\* line 284: the statuses an order can be cancelled from
CancellableStatuses == {"pending", "in_transit", "ready_for_pickup"}

\* a restock that returns the units and leaves the status as it is
RestockQuantityOnly(I, item_id, quantity_ordered) ==
    IF item_id \notin DOMAIN I THEN I
    ELSE [I EXCEPT ![item_id].quantity = @ + quantity_ordered]

\* a restock that returns one unit whatever the order's quantity
RestockOneUnit(I, item_id, quantity_ordered) ==
    IF item_id \notin DOMAIN I THEN I
    ELSE [I EXCEPT ![item_id].quantity = @ + 1, ![item_id].status = "available"]

\* line 286: UPDATE items SET quantity = quantity + ?, status = 'available'
RestockItem(I, item_id, quantity_ordered) ==
    IF item_id \notin DOMAIN I THEN I
    ELSE [I EXCEPT ![item_id].quantity = @ + quantity_ordered,
                   ![item_id].status = "available"]

\* a cancel_order whose SELECT looks the order up by its id alone
CancelOrderSelectAnyUser(c) ==
    \E user \in Users, order_id \in OrderIds :
        LET r == [Idle EXCEPT !.op = "cancel_order", !.user = user, !.oid = order_id]
            found == OrderIndexes(orders, order_id)
        IN  /\ IF found = {}
               THEN Answer(c, r, Json(404, "Order not found or permission denied."))
               ELSE LET order == orders[CHOOSE k \in found : TRUE]
                    IN  IF order.order_status \notin {"pending", "in_transit", "ready_for_pickup"}
                        THEN Answer(c, r, Json(400, "This order cannot be cancelled."))
                        ELSE Begin(c, [r EXCEPT !.pc = "write", !.item = order.item_id,
                                                !.qty = order.quantity_ordered])
            /\ UNCHANGED db

\* lines 278-284: the SELECT by order id and buyer, and the status check
CancelOrderSelect(c) ==
    \E user \in Users, order_id \in OrderIds :
        LET r == [Idle EXCEPT !.op = "cancel_order", !.user = user, !.oid = order_id]
            found == {k \in OrderIndexes(orders, order_id) : orders[k].buyer_id = user}
        IN  /\ IF found = {}
               THEN Answer(c, r, Json(404, "Order not found or permission denied."))
               ELSE LET order == orders[CHOOSE k \in found : TRUE]
                    IN  IF order.order_status \notin CancellableStatuses
                        THEN Answer(c, r, Json(400, "This order cannot be cancelled."))
                        ELSE Begin(c, [r EXCEPT !.pc = "write", !.item = order.item_id,
                                                !.qty = order.quantity_ordered])
            /\ UNCHANGED db

\* lines 285-289: the two UPDATEs and the commit of `with conn`
CancelOrderWrite(c) ==
    /\ req[c].op = "cancel_order" /\ req[c].pc = "write"
    /\ CanWrite(c)
    /\ Commit(RestockItem(items, req[c].item, req[c].qty),
              SetOrderStatus(orders, req[c].oid, OrderStatuses, "cancelled"))
    /\ Finish(c, Json(200, "Order successfully cancelled."))

cancel_order(c) == CancelOrderSelect(c) \/ CancelOrderWrite(c)

\* ----------------------------------------------------------- mark_received
\* a check that lets the buyer confirm a cancelled order
OnlyCompletedIsFinal == {"completed"}

\* line 300: the statuses the buyer can no longer confirm
FinalStatuses == {"completed", "cancelled"}

\* lines 294-300
MarkReceivedSelect(c) ==
    \E user \in Users, order_id \in OrderIds :
        LET r == [Idle EXCEPT !.op = "mark_received", !.user = user, !.oid = order_id]
            found == {k \in OrderIndexes(orders, order_id) : orders[k].buyer_id = user}
        IN  /\ IF found = {}
               THEN Answer(c, r, Json(404, "Order not found or permission denied."))
               ELSE LET order == orders[CHOOSE k \in found : TRUE]
                    IN  IF order.order_status \in FinalStatuses
                        THEN Answer(c, r, Json(400, "This order is already finalized."))
                        ELSE Begin(c, [r EXCEPT !.pc = "write"])
            /\ UNCHANGED db

\* lines 301-304
MarkReceivedWrite(c) ==
    /\ req[c].op = "mark_received" /\ req[c].pc = "write"
    /\ CanWrite(c)
    /\ Commit(items, SetOrderStatus(orders, req[c].oid, OrderStatuses, "completed"))
    /\ Finish(c, Json(200, "Order marked as received."))

mark_received(c) == MarkReceivedSelect(c) \/ MarkReceivedWrite(c)

\* ------------------------------------------------------------ admin routes
\* lines 61-68: one guarded UPDATE, then the success flash whatever it changed
admin_mark_received_by_warehouse(c) ==
    \E order_id \in OrderIds :
        /\ CanWrite(c)
        /\ Answer(c, [Idle EXCEPT !.op = "admin_mark_received", !.oid = order_id],
                  Flash("success", "marked as received"))
        /\ Commit(items, SetOrderStatus(orders, order_id, {"pending"}, "in_transit"))

\* lines 72-88 up to the UPDATE: the SELECT of hashed_otp and check_otp
AdminCompleteSelect(c) ==
    \E order_id \in OrderIds, submitted_otp \in SubmittedOtps :
        LET r == [Idle EXCEPT !.op = "admin_complete_order",
                              !.oid = order_id, !.otp = submitted_otp]
            found == OrderIndexes(orders, order_id)
        IN  /\ IF found = {}
               THEN Answer(c, r, Flash("danger", "not found"))
               ELSE IF check_otp(submitted_otp, orders[CHOOSE k \in found : TRUE].hashed_otp)
                    THEN Begin(c, [r EXCEPT !.pc = "write"])
                    ELSE Answer(c, r, Flash("danger", "Incorrect OTP"))
            /\ UNCHANGED db

\* lines 84-86: the guarded UPDATE, the commit and the success flash
AdminCompleteWrite(c) ==
    /\ req[c].op = "admin_complete_order" /\ req[c].pc = "write"
    /\ CanWrite(c)
    /\ Commit(items, SetOrderStatus(orders, req[c].oid, {"in_transit"}, "completed"))
    /\ Finish(c, Flash("success", "successfully completed"))

admin_complete_order(c) == AdminCompleteSelect(c) \/ AdminCompleteWrite(c)

\* ---------------------------------------------------------- delete_listing
\* DELETE FROM items WHERE item_id=? AND seller_id=?; foreign keys are not
\* enforced on the connections of get_db, so the item's orders keep their item_id
DeleteItem(I, item_id) == [i \in DOMAIN I \ {item_id} |-> I[i]]

\* a delete_listing whose DELETE names the item alone
DeleteListingOfAnySeller(c) ==
    \E user \in Users, item_id \in ItemIds :
        LET r == [Idle EXCEPT !.op = "delete_listing", !.user = user, !.item = item_id]
            matched == item_id \in DOMAIN items
        IN  /\ CanWrite(c)
            /\ IF matched /\ prevent_item_delete_if_ordered(orders, item_id)
               THEN /\ Answer(c, r, Json(400, "Cannot delete an item that has existing, non-cancelled orders."))
                    /\ UNCHANGED db
               ELSE IF matched
               THEN /\ Answer(c, r, Json(204, ""))
                    /\ Commit(DeleteItem(items, item_id), orders)
               ELSE /\ Answer(c, r, Json(404, "Item not found or not yours"))
                    /\ UNCHANGED db

delete_listing(c) ==
    \E user \in Users, item_id \in ItemIds :
        LET r == [Idle EXCEPT !.op = "delete_listing", !.user = user, !.item = item_id]
            matched == item_id \in DOMAIN items /\ items[item_id].seller_id = user
        IN  /\ CanWrite(c)
            /\ IF matched /\ prevent_item_delete_if_ordered(orders, item_id)
               THEN /\ Answer(c, r, Json(400, "Cannot delete an item that has existing, non-cancelled orders."))
                    /\ UNCHANGED db
               ELSE IF matched
               THEN /\ Answer(c, r, Json(204, ""))
                    /\ Commit(DeleteItem(items, item_id), orders)
               ELSE /\ Answer(c, r, Json(404, "Item not found or not yours"))
                    /\ UNCHANGED db

\* ------------------------------------------------------ deletion of an order
\* DELETE FROM orders WHERE order_id = ? (no route of app.py issues it; the
\* schema's AFTER DELETE trigger is its whole effect on the items)
DeleteOrderRows(O, order_id) == SelectSeq(O, LAMBDA row : row.order_id # order_id)

delete_order(c) ==
    \E order_id \in OrderIds :
        /\ CanWrite(c)
        /\ OrderIndexes(orders, order_id) # {}
        /\ Answer(c, [Idle EXCEPT !.op = "delete_order", !.oid = order_id],
                  [code |-> 0, outcome |-> "ok", msg |-> "row deleted"])
        /\ Commit(after_order_delete_restock_item(items, orders[CHOOSE k \in OrderIndexes(orders, order_id) : TRUE]),
                  DeleteOrderRows(orders, order_id))

\* -------------------------------------------------------------------- sell
\* item_id INTEGER PRIMARY KEY AUTOINCREMENT: one more than the largest id
\* the table has held; seed_data inserts items 1 to 7
NextItemId(I) ==
    LET used == {7} \cup DOMAIN I
    IN  (CHOOSE m \in used : \A i \in used : i <= m) + 1

\* lines 178-198: the POST of the sell form. quantity is int() of the form
\* field, any integer; the INSERT names no status, so the row takes the
\* schema's default 'available'
sell(c, prices, quantities) ==
    \E user \in Users, price \in prices, quantity \in quantities :
        LET item_id == NextItemId(items)
            row == [seller_id |-> user, price |-> price, quantity |-> quantity,
                    status |-> "available"]
        IN  /\ CanWrite(c)
            /\ Cardinality(DOMAIN items) < Cardinality(DOMAIN SeedItems) + MaxListings
            /\ Answer(c, [Idle EXCEPT !.op = "sell", !.user = user, !.item = item_id,
                                      !.qty = quantity],
                      Flash("success", "Item listed successfully!"))
            /\ Commit((item_id :> row) @@ items, orders)

\* -------------------------------------------------------------------- home
RECURSIVE Descending(_)
\* ORDER BY item_id DESC
Descending(S) ==
    IF S = {} THEN <<>>
    ELSE LET m == CHOOSE x \in S : \A y \in S : y <= x
         IN  <<m>> \o Descending(S \ {m})

\* SELECT * FROM items WHERE status='available' AND quantity > 0 ORDER BY item_id DESC
HomeRows(I) ==
    LET ids == Descending({i \in DOMAIN I : I[i].status = "available" /\ I[i].quantity > 0})
    IN  [k \in 1..Len(ids) |->
            [item_id |-> ids[k], seller_id |-> I[ids[k]].seller_id, price |-> I[ids[k]].price,
             quantity |-> I[ids[k]].quantity, status |-> I[ids[k]].status]]

\* lines 103-107: the catalog page with the rows the SELECT returned
home(c) ==
    /\ Answer(c, [Idle EXCEPT !.op = "home"],
              [code |-> 200, outcome |-> "ok", msg |-> "home.html",
               items |-> HomeRows(ViewItems(c))])
    /\ UNCHANGED db

\* ------------------------------------------------------------------- specs
Init ==
    /\ items = SeedItems
    /\ orders = <<>>
    /\ writer = 0
    /\ txItems = SeedItems
    /\ txOrders = <<>>
    /\ req = [c \in Conns |-> Idle]
    /\ res = [c \in Conns |-> NoRes]
    /\ preItems = [c \in Conns |-> SeedItems]
    /\ preOrders = [c \in Conns |-> <<>>]
    /\ placed = NoPlaced

\* the requests of one client after another, the cart lines carrying
\* quantities in lineQtys
Requests(c, lineQtys) ==
    \/ place_order(c, Users, ItemIds, lineQtys)
    \/ cancel_order(c)
    \/ mark_received(c)
    \/ admin_mark_received_by_warehouse(c)
    \/ admin_complete_order(c)
    \/ delete_listing(c)
    \/ Return(c)

\* carts as the cart page builds them, every line asking for at least one
\* unit; order rows can also be deleted
Next == \E c \in SeqConns : Requests(c, PosQty) \/ delete_order(c)

Spec == Init /\ [][Next]_vars

\* the routes of app.py alone, with carts as /api/place_order accepts them:
\* int(item.get("qty", 1)) is any integer
NextAnyQty == \E c \in SeqConns : Requests(c, AnyQty)

SpecAnyQty == Init /\ [][NextAnyQty]_vars

\* one place_order per connection, all against the Study Lamp, their
\* statements interleaved
ConcItem == 3
ConcBuyers == Users \ {SeedItems[ConcItem].seller_id}

NextConc ==
    \E c \in Conns :
        \/ PlaceOrderBegin(c, ConcBuyers, {"list"})
        \/ PlaceOrderSelect(c, {ConcItem}, PosQty)
        \/ PlaceOrderInsert(c)
        \/ PlaceOrderCommit(c)
        \/ PlaceOrderBusy(c)

SpecConc == Init /\ [][NextConc]_vars

\* the delivery of orders for the Electric Kettle of user 2 (quantity 4), each
\* for one unit: placement, the warehouse's receipt, completion by code
DeliveryItem == 5
KettleItems ==
    DeliveryItem :> [seller_id |-> 2, price |-> 600, quantity |-> 4, status |-> "available"]

InitDelivery ==
    /\ items = KettleItems
    /\ orders = <<>>
    /\ writer = 0
    /\ txItems = KettleItems
    /\ txOrders = <<>>
    /\ req = [c \in Conns |-> Idle]
    /\ res = [c \in Conns |-> NoRes]
    /\ preItems = [c \in Conns |-> KettleItems]
    /\ preOrders = [c \in Conns |-> <<>>]
    /\ placed = NoPlaced

NextDelivery ==
    \E c \in SeqConns :
        \/ place_order(c, Users, {DeliveryItem}, {1})
        \/ admin_mark_received_by_warehouse(c)
        \/ admin_complete_order(c)
        \/ Return(c)

SpecDelivery == InitDelivery /\ [][NextDelivery]_vars

\* check_otp on its own: codes out of 1000..9999 as generate_hashed_otp draws
\* them, what a form can submit, and what the hashed_otp column can hold (""
\* for NULL or the empty string; the hashes of "" and of "None" as well)
SampleCodes == {"1000", "1234", "1235", "4321", "5678", "9999"}
GeneratedPairs == {[otp |-> c, hashed |-> Sha256Hex8(c)] : c \in SampleCodes}
SubmittedCodes == {None, Str("")} \cup {Str(c) : c \in SampleCodes}
StoredHashes == {""} \cup {p.hashed : p \in GeneratedPairs} \cup {Sha256Hex8(""), "dc937b59"}

\* the call check_otp(submitted_otp, stored_hash) about to be made
InitOtp ==
    /\ items = SeedItems
    /\ orders = <<>>
    /\ writer = 0
    /\ txItems = SeedItems
    /\ txOrders = <<>>
    /\ \E submitted_otp \in SubmittedCodes, stored_hash \in StoredHashes :
          /\ req = [c \in Conns |->
                       IF c \in SeqConns
                       THEN [Idle EXCEPT !.op = "check_otp", !.pc = "call", !.otp = submitted_otp]
                       ELSE Idle]
          /\ res = [c \in Conns |->
                       IF c \in SeqConns THEN [NoRes EXCEPT !.msg = stored_hash] ELSE NoRes]
    /\ preItems = [c \in Conns |-> SeedItems]
    /\ preOrders = [c \in Conns |-> <<>>]
    /\ placed = NoPlaced

\* the call returns True or False
CheckOtpCall(c) ==
    /\ req[c].op = "check_otp" /\ req[c].pc = "call"
    /\ req' = [req EXCEPT ![c].pc = "done"]
    /\ res' = [res EXCEPT ![c].outcome =
                   IF check_otp(req[c].otp, res[c].msg) THEN "true" ELSE "false"]
    /\ UNCHANGED <<db, preItems, preOrders, placed>>

NextOtp == \E c \in SeqConns : CheckOtpCall(c)

SpecOtp == InitOtp /\ [][NextOtp]_vars

\* one client places orders for the Study Lamp, request after request, while
\* cancel_order requests run on both connections, the SELECT of one free to
\* fall between the SELECT and the UPDATEs of the other
NextCancelRace ==
    \/ \E c \in SeqConns :
          \/ PlaceOrderBegin(c, ConcBuyers, {"list"})
          \/ PlaceOrderSelect(c, {ConcItem}, PosQty)
          \/ PlaceOrderInsert(c)
          \/ PlaceOrderCommit(c)
          \/ Return(c)
    \/ \E c \in Conns : cancel_order(c)

SpecCancelRace == Init /\ [][NextCancelRace]_vars

\* one client places orders for the Study Lamp and cancels them, request
\* after request, while mark_received and the two admin routes run on both
\* connections, their statements interleaved with those of cancel_order
NextStatusRace ==
    \/ \E c \in SeqConns :
          \/ PlaceOrderBegin(c, ConcBuyers, {"list"})
          \/ PlaceOrderSelect(c, {ConcItem}, PosQty)
          \/ PlaceOrderInsert(c)
          \/ PlaceOrderCommit(c)
          \/ cancel_order(c)
          \/ Return(c)
    \/ \E c \in Conns :
          \/ mark_received(c)
          \/ admin_mark_received_by_warehouse(c)
          \/ admin_complete_order(c)

SpecStatusRace == Init /\ [][NextStatusRace]_vars

\* one client places orders for the Study Lamp, request after request, while
\* delete_listing requests run on both connections, the DELETE free to fall
\* between the SELECT and the INSERT of a cart line
NextDeleteRace ==
    \/ \E c \in SeqConns :
          \/ PlaceOrderBegin(c, ConcBuyers, {"list"})
          \/ PlaceOrderSelect(c, {ConcItem}, PosQty)
          \/ PlaceOrderInsert(c)
          \/ PlaceOrderCommit(c)
          \/ Return(c)
    \/ \E c \in Conns : delete_listing(c)

SpecDeleteRace == Init /\ [][NextDeleteRace]_vars

\* one request per connection against the Study Lamp: a place_order or a
\* read of the catalog, the read free to fall between the statements of the
\* placement
NextCatalog ==
    \E c \in Conns :
        \/ PlaceOrderBegin(c, ConcBuyers, {"list"})
        \/ PlaceOrderSelect(c, {ConcItem}, PosQty)
        \/ PlaceOrderInsert(c)
        \/ PlaceOrderCommit(c)
        \/ PlaceOrderBusy(c)
        \/ home(c)

SpecCatalog == Init /\ [][NextCatalog]_vars

\* users list items through the sell form, one request after another
SellPrices == {450}

NextSell == \E c \in SeqConns : sell(c, SellPrices, AnyQty) \/ Return(c)

SpecSell == Init /\ [][NextSell]_vars

\* the life of the orders for the Study Lamp, one request after another:
\* placement, the buyer's cancel_order and mark_received, the admin routes
NextLifecycle ==
    \E c \in SeqConns :
        \/ place_order(c, ConcBuyers, {ConcItem}, PosQty)
        \/ cancel_order(c)
        \/ mark_received(c)
        \/ admin_mark_received_by_warehouse(c)
        \/ admin_complete_order(c)
        \/ Return(c)

\* the next statement of a handler that has begun: Flask runs a handler to
\* its return, whatever requests arrive meanwhile
Continue(c) ==
    \/ PlaceOrderSelect(c, {ConcItem}, PosQty)
    \/ PlaceOrderInsert(c)
    \/ PlaceOrderCommit(c)
    \/ CancelOrderWrite(c)
    \/ MarkReceivedWrite(c)
    \/ AdminCompleteWrite(c)

\* seed_data: the listing "Introduction to Python" (item 1 of user 1, price
\* 250, quantity 3), for which the script inserts a 'completed' and a
\* 'cancelled' order of one unit each
SeedBook == 1
BookItems ==
    SeedBook :> [seller_id |-> 1, price |-> 250, quantity |-> 3, status |-> "available"]

\* the statuses with which seed_data inserts its orders
SeededStatuses == {"completed", "in_transit", "pending", "cancelled"}

\* one INSERT INTO orders of seed_data, order_status given in the statement;
\* the schema's triggers run as for any INSERT, and an abort ends the script
\* with nothing inserted
seed_data_order(c) ==
    \E order_id \in OrderIds, buyer \in Users, quantity_ordered \in PosQty,
       order_status \in SeededStatuses, code \in generate_hashed_otp :
        LET item == items[SeedBook]
            row == [OrderRow(order_id, buyer, item.seller_id, SeedBook,
                             item.price * quantity_ordered, quantity_ordered,
                             code.otp, code.hashed)
                    EXCEPT !.order_status = order_status]
            r == [Idle EXCEPT !.op = "seed_data", !.user = buyer, !.oid = order_id,
                              !.item = SeedBook, !.qty = quantity_ordered]
            aborts == InsertAborts(items, orders, row)
        IN  /\ CanWrite(c)
            /\ IF aborts # {}
               THEN /\ \E msg \in aborts : Answer(c, r, Json(500, msg))
                    /\ UNCHANGED db
               ELSE /\ Answer(c, r, [code |-> 0, outcome |-> "ok", msg |-> order_status])
                    /\ Commit(after_order_insert_update_item_stock(items, row),
                              Append(orders, row))

InitSeed ==
    /\ items = BookItems
    /\ orders = <<>>
    /\ writer = 0
    /\ txItems = BookItems
    /\ txOrders = <<>>
    /\ req = [c \in Conns |-> Idle]
    /\ res = [c \in Conns |-> NoRes]
    /\ preItems = [c \in Conns |-> BookItems]
    /\ preOrders = [c \in Conns |-> <<>>]
    /\ placed = NoPlaced

\* orders inserted as seed_data inserts them, then cancelled through the
\* route or deleted
NextSeed ==
    \E c \in SeqConns :
        \/ seed_data_order(c)
        \/ cancel_order(c)
        \/ delete_order(c)
        \/ Return(c)

SpecSeed == InitSeed /\ [][NextSeed]_vars

SpecLifecycle ==
    Init /\ [][NextLifecycle]_vars /\ \A c \in SeqConns : WF_vars(Continue(c))

\* ------------------------------------------------------ v1: src/v1/app.py
\* the Hostel Chair of seed_data.py: item 1 of user 1, with the schema's
\* default quantity of 1
V1Item == 1
V1SeedItems ==
    V1Item :> [seller_id |-> 1, price |-> 400, quantity |-> 1, status |-> "available"]

\* v1's orders row: payment_mode from the request, the schema's defaults
V1OrderRow(order_id, buyer_id, seller_id, item_id, price, quantity_ordered, payment_mode, hashed_otp) ==
    [order_id |-> order_id, buyer_id |-> buyer_id, seller_id |-> seller_id,
     item_id |-> item_id, price |-> price, quantity_ordered |-> quantity_ordered,
     payment_mode |-> payment_mode, payment_status |-> "pending",
     order_status |-> "pending", hashed_otp |-> hashed_otp]

\* v1's generate_hashed_otp: the code and the first 8 hex digits of its SHA-256
v1_generate_hashed_otp == {[otp |-> c, hashed |-> Sha256Hex8(c)] : c \in OtpCodes}

\* v1's only trigger, AFTER INSERT ON orders: quantity = quantity -
\* NEW.quantity_ordered, then status = 'sold' where quantity <= 0
v1_after_order_insert_update_item_stock(I, row) ==
    IF row.item_id \notin DOMAIN I THEN I
    ELSE LET q == I[row.item_id].quantity - row.quantity_ordered
         IN  [I EXCEPT ![row.item_id].quantity = q,
                       ![row.item_id].status = IF q <= 0 THEN "sold" ELSE @]

\* lines 293-301: a cart that is falsy or not a list is refused; otherwise
\* the connection is opened
V1PlaceOrderBegin(c, buyers, carts) ==
    \E buyer \in buyers, shape \in carts :
        LET r == [Idle EXCEPT !.op = "v1_place_order", !.user = buyer, !.shape = shape]
        IN  /\ IF shape = "list"
               THEN Begin(c, [r EXCEPT !.pc = "line"])
               ELSE Answer(c, r, Json(400, "Cart is invalid or empty"))
            /\ UNCHANGED db

\* lines 305-313: the next cart line, its stock SELECT and the check of the
\* route, which raises ValueError
V1PlaceOrderSelect(c, lineItems, lineQtys) ==
    /\ req[c].op = "v1_place_order" /\ req[c].pc = "line"
    /\ req[c].n < MaxCart
    /\ \E item_id \in lineItems, quantity_ordered \in lineQtys :
          IF /\ item_id \in DOMAIN ViewItems(c)
             /\ ViewItems(c)[item_id].status = "available"
             /\ ~(ViewItems(c)[item_id].quantity < quantity_ordered)
          THEN /\ req' = [req EXCEPT ![c].pc = "insert", ![c].item = item_id,
                                     ![c].qty = quantity_ordered,
                                     ![c].asked = @ + quantity_ordered,
                                     ![c].lines = Append(@, [id |-> item_id, qty |-> quantity_ordered]),
                                     ![c].seller = ViewItems(c)[item_id].seller_id,
                                     ![c].price = ViewItems(c)[item_id].price]
               /\ UNCHANGED <<db, res, preItems, preOrders, placed>>
          ELSE /\ req' = [req EXCEPT ![c].pc = "done", ![c].item = item_id,
                                     ![c].qty = quantity_ordered,
                                     ![c].asked = @ + quantity_ordered,
                                     ![c].lines = Append(@, [id |-> item_id, qty |-> quantity_ordered])]
               /\ res' = [res EXCEPT ![c] = Json(400, "out of stock or unavailable")]
               /\ Rollback(c)
               /\ UNCHANGED <<preItems, preOrders, placed>>

\* lines 314-324: INSERT INTO orders and its trigger; the primary key is all
\* that can refuse the row, and sqlite3.Error answers 500
V1PlaceOrderInsert(c) ==
    /\ req[c].op = "v1_place_order" /\ req[c].pc = "insert"
    /\ CanWrite(c)
    /\ \E order_id \in OrderIds, code \in v1_generate_hashed_otp :
          LET r == req[c]
              row == V1OrderRow(order_id, r.user, r.seller, r.item, r.price * r.qty,
                                r.qty, "COD", code.hashed)
          IN  IF OrderIndexes(ViewOrders(c), order_id) # {}
              THEN /\ Finish(c, Json(500, "A database error occurred"))
                   /\ Rollback(c)
              ELSE /\ txOrders' = Append(ViewOrders(c), row)
                   /\ txItems' = v1_after_order_insert_update_item_stock(ViewItems(c), row)
                   /\ writer' = c
                   /\ req' = [req EXCEPT ![c].pc = "line", ![c].n = @ + 1,
                                         ![c].seller = 0, ![c].price = 0]
                   /\ UNCHANGED <<items, orders, res, preItems, preOrders, placed>>

\* the loop ends: `with conn` commits, line 332 answers ok
V1PlaceOrderCommit(c) ==
    /\ req[c].op = "v1_place_order" /\ req[c].pc = "line"
    /\ req[c].n >= 1
    /\ Commit(ViewItems(c), ViewOrders(c))
    /\ req' = [req EXCEPT ![c].pc = "done"]
    /\ res' = [res EXCEPT ![c] = Json(200, "Order placed successfully!")]
    /\ UNCHANGED <<preItems, preOrders, placed>>

\* sqlite3.OperationalError: database is locked, when another connection
\* holds the write lock for the whole busy timeout; lines 327-328 answer 500
V1PlaceOrderBusy(c) ==
    /\ req[c].op = "v1_place_order" /\ req[c].pc = "insert"
    /\ ~CanWrite(c)
    /\ Finish(c, Json(500, "A database error occurred"))
    /\ Rollback(c)

InitV1 ==
    /\ items = V1SeedItems
    /\ orders = <<>>
    /\ writer = 0
    /\ txItems = V1SeedItems
    /\ txOrders = <<>>
    /\ req = [c \in Conns |-> Idle]
    /\ res = [c \in Conns |-> NoRes]
    /\ preItems = [c \in Conns |-> V1SeedItems]
    /\ preOrders = [c \in Conns |-> <<>>]
    /\ placed = NoPlaced

\* one v1 place_order per connection, all against the Hostel Chair, their
\* statements interleaved
NextV1 ==
    \E c \in Conns :
        \/ V1PlaceOrderBegin(c, Users, {"list"})
        \/ V1PlaceOrderSelect(c, {V1Item}, PosQty)
        \/ V1PlaceOrderInsert(c)
        \/ V1PlaceOrderCommit(c)
        \/ V1PlaceOrderBusy(c)

SpecV1 == InitV1 /\ [][NextV1]_vars

\* ---------------------------------------------- legacy: src/legacy/app.py
\* a listing as the legacy sell form inserts it: item 1, listed by user 1 as
\* "Hostel Chair" with quantity 2
LegacyItems ==
    1 :> [seller_id |-> 1, name |-> "Hostel Chair", price |-> 400, quantity |-> 2,
          status |-> "available"]

\* what a cart line can carry as item_name: a listed name, a name no item
\* has, and the empty string (or no name at all)
LegacyNames == {"Hostel Chair", "Old Bicycle", ""}

\* the price of a line comes from the request
LegacyPrices == {0, 400}

\* the legacy orders row: the item by name, no quantity column
LegacyOrderRow(order_id, buyer_id, item_name, price, hashed_otp) ==
    [order_id |-> order_id, buyer_id |-> buyer_id, item_name |-> item_name,
     price |-> price, seller_name |-> "Warehouse", seller_email |-> "warehouse@campus.edu",
     status |-> "pending", hashed_otp |-> hashed_otp]

\* legacy generate_hashed_otp: the code and the first 8 hex digits of its SHA-256
legacy_generate_hashed_otp == {[otp |-> c, hashed |-> Sha256Hex8(c)] : c \in OtpCodes}

\* lines 339-343: UPDATE items SET quantity = COALESCE(quantity,1) - ?
\* WHERE name=? AND status='available' AND COALESCE(quantity,0) >= ?
LegacyDecrement(I, item_name, qty) ==
    [i \in DOMAIN I |->
        IF I[i].name = item_name /\ I[i].status = "available" /\ I[i].quantity >= qty
        THEN [I[i] EXCEPT !.quantity = @ - qty] ELSE I[i]]

\* lines 346-349: UPDATE items SET status='sold' WHERE name=? AND COALESCE(quantity,0) <= 0
LegacyMarkSold(I, item_name) ==
    [i \in DOMAIN I |->
        IF I[i].name = item_name /\ I[i].quantity <= 0
        THEN [I[i] EXCEPT !.status = "sold"] ELSE I[i]]

\* lines 307-316: a cart that is falsy or not a list is refused; otherwise
\* the connection is opened
LegacyPlaceOrderBegin(c, buyers, carts) ==
    \E buyer \in buyers, shape \in carts :
        LET r == [Idle EXCEPT !.op = "legacy_place_order", !.user = buyer, !.shape = shape]
        IN  /\ IF shape = "list"
               THEN Begin(c, [r EXCEPT !.pc = "line"])
               ELSE Answer(c, r, Json(400, "Cart is empty"))
            /\ UNCHANGED db

\* lines 320-349: one cart line. A line without a name or with qty < 1 is
\* skipped; any other line inserts its order and then runs the two UPDATEs,
\* whatever the first of them matched. A repeated order_id (UNIQUE) raises,
\* and lines 352-354 roll back and answer 500.
LegacyPlaceOrderLine(c, names, prices, lineQtys) ==
    /\ req[c].op = "legacy_place_order" /\ req[c].pc = "line"
    /\ Len(req[c].lines) < MaxCart
    /\ CanWrite(c)
    /\ \E item_name \in names, price \in prices, qty \in lineQtys :
          LET line == [id |-> item_name, qty |-> qty]
          IN  IF item_name = "" \/ qty < 1
              THEN /\ req' = [req EXCEPT ![c].lines = Append(@, line)]
                   /\ UNCHANGED <<db, res, preItems, preOrders, placed>>
              ELSE \E order_id \in OrderIds, code \in legacy_generate_hashed_otp :
                      IF OrderIndexes(ViewOrders(c), order_id) # {}
                      THEN /\ req' = [req EXCEPT ![c].pc = "done", ![c].lines = Append(@, line)]
                           /\ res' = [res EXCEPT ![c] = Json(500, "UNIQUE constraint failed: orders.order_id")]
                           /\ Rollback(c)
                           /\ UNCHANGED <<preItems, preOrders, placed>>
                      ELSE /\ txOrders' = Append(ViewOrders(c),
                                                 LegacyOrderRow(order_id, req[c].user, item_name,
                                                                price, code.hashed))
                           /\ txItems' = LegacyMarkSold(LegacyDecrement(ViewItems(c), item_name, qty),
                                                        item_name)
                           /\ writer' = c
                           /\ req' = [req EXCEPT ![c].lines = Append(@, line), ![c].n = @ + 1,
                                                 ![c].asked = @ + qty]
                           /\ UNCHANGED <<items, orders, res, preItems, preOrders, placed>>

\* lines 351 and 356: the loop ends, conn.commit(), {"ok": true}
LegacyPlaceOrderCommit(c) ==
    /\ req[c].op = "legacy_place_order" /\ req[c].pc = "line"
    /\ Len(req[c].lines) >= 1
    /\ Commit(ViewItems(c), ViewOrders(c))
    /\ req' = [req EXCEPT ![c].pc = "done"]
    /\ res' = [res EXCEPT ![c] = Json(200, "ok")]
    /\ UNCHANGED <<preItems, preOrders, placed>>

\* the response has been delivered and the client can send its next request
LegacyReturn(c) ==
    /\ req[c].pc = "done"
    /\ req' = [req EXCEPT ![c] = Idle]
    /\ res' = [res EXCEPT ![c] = NoRes]
    /\ preItems' = [preItems EXCEPT ![c] = LegacyItems]
    /\ preOrders' = [preOrders EXCEPT ![c] = <<>>]
    /\ UNCHANGED <<db, placed>>

InitLegacy ==
    /\ items = LegacyItems
    /\ orders = <<>>
    /\ writer = 0
    /\ txItems = LegacyItems
    /\ txOrders = <<>>
    /\ req = [c \in Conns |-> Idle]
    /\ res = [c \in Conns |-> NoRes]
    /\ preItems = [c \in Conns |-> LegacyItems]
    /\ preOrders = [c \in Conns |-> <<>>]
    /\ placed = NoPlaced

\* the legacy place_order, one request after another, with carts as the
\* route accepts them
NextLegacy ==
    \E c \in SeqConns :
        \/ LegacyPlaceOrderBegin(c, Users, {"list", "empty"})
        \/ LegacyPlaceOrderLine(c, LegacyNames, LegacyPrices, AnyQty)
        \/ LegacyPlaceOrderCommit(c)
        \/ LegacyReturn(c)

SpecLegacy == InitLegacy /\ [][NextLegacy]_vars

Done(c, op) == req[c].pc = "done" /\ req[c].op = op
Failed(c) == res[c].outcome \in {"error", "danger"}
Unchanged(c) == items = preItems[c] /\ orders = preOrders[c]

RECURSIVE OrderedQuantity(_, _, _)
\* the units of item_id that the first k rows of O order
OrderedQuantity(O, k, item_id) ==
    IF k = 0 THEN 0
    ELSE OrderedQuantity(O, k - 1, item_id)
         + (IF O[k].item_id = item_id THEN O[k].quantity_ordered ELSE 0)

\* C1: after any sequence of place_order (any integer qty), cancel_order,
\* mark_received, the admin routes and delete_listing, run one at a time from
\* items listed with quantity >= 0, every item's quantity is >= 0.
QuantityNeverNegative ==
    \A i \in DOMAIN items : items[i].quantity >= 0

\* C2: in every reachable state every item is 'sold' if and only if its
\* quantity is <= 0; in particular an item with quantity 0 is never 'available'.
SoldIffNoStock ==
    \A i \in DOMAIN items : (items[i].status = "sold") <=> (items[i].quantity <= 0)

\* C3: every order row, committed or not, has buyer_id # seller_id; a
\* place_order that reaches a cart line whose item the buyer owns fails and
\* leaves the orders and the stock as they were.
NoSelfPurchase ==
    /\ \A k \in 1..Len(orders) : orders[k].buyer_id # orders[k].seller_id
    /\ \A k \in 1..Len(txOrders) : txOrders[k].buyer_id # txOrders[k].seller_id
    /\ \A c \in Conns :
          (/\ Done(c, "place_order")
           /\ req[c].item \in DOMAIN preItems[c]
           /\ preItems[c][req[c].item].seller_id = req[c].user)
          => Failed(c) /\ Unchanged(c)

\* C3 witness: a second cart line on the buyer's own item was refused by the
\* trigger after the first line had been inserted.
SelfPurchaseRefused ==
    \E c \in Conns :
        /\ Done(c, "place_order") /\ res[c].msg = "self_purchase"
        /\ req[c].n >= 1 /\ Unchanged(c)

\* C4: under every interleaving of the SELECT and INSERT steps of concurrent
\* place_order requests (qty >= 1) on one item with stock S, the committed
\* orders never sum to more than S and the item's quantity never drops below 0,
\* in the database or in an open transaction.
NoOversell ==
    /\ OrderedQuantity(orders, Len(orders), ConcItem) <= SeedItems[ConcItem].quantity
    /\ items[ConcItem].quantity >= 0
    /\ txItems[ConcItem].quantity >= 0

\* C4 witness: both requests passed their SELECT, one committed and the
\* trigger refused the other's INSERT.
LateInsertRefused ==
    \E c, d \in Conns :
        /\ Done(c, "place_order") /\ res[c].code = 200
        /\ Done(d, "place_order") /\ res[d].msg = "insufficient_stock"

AllDone == \A c \in Conns : req[c].pc = "done"
Succeeded == {c \in Conns : res[c].code = 200}

RECURSIVE SumOver(_, _)
SumOver(f, S) ==
    IF S = {} THEN 0
    ELSE LET x == CHOOSE y \in S : TRUE IN f[x] + SumOver(f, S \ {x})

TotalAsked == SumOver([c \in Conns |-> req[c].asked], Conns)
StockErrors == {"insufficient_stock", "out of stock or unavailable"}

PlaceOrderAllOrNothing ==
    \A c \in Conns :
        (Done(c, "place_order") /\ Failed(c))
        => /\ Unchanged(c)
           /\ writer # c
           /\ (writer = 0 => txItems = items /\ txOrders = orders)

\* C6 witness: the second line of a cart was out of stock after the first
\* had been inserted.
SecondLineFailed ==
    \E c \in Conns :
        /\ Done(c, "place_order") /\ Failed(c)
        /\ req[c].n >= 1 /\ res[c].msg = "out of stock or unavailable"

\* C7: a successful one-line place_order for q units (1 <= q <= S) of an
\* available item with stock S, followed by the buyer's cancel_order of the
\* created order with no change to the tables in between, succeeds and leaves
\* the item with quantity S and status 'available' and the order 'cancelled'.
CancelRestoresStock ==
    \A c \in Conns :
        (/\ Done(c, "cancel_order")
         /\ placed.oid # 0 /\ req[c].oid = placed.oid /\ req[c].user = placed.buyer
         /\ placed.status = "available" /\ placed.qty \in 1..placed.quantity)
        => /\ res[c].code = 200
           /\ placed.item \in DOMAIN items
           /\ items[placed.item].quantity = placed.quantity
           /\ items[placed.item].status = "available"
           /\ \A k \in OrderIndexes(orders, placed.oid) : orders[k].order_status = "cancelled"
           /\ OrderIndexes(orders, placed.oid) # {}

\* C7 witness: the whole stock was ordered, the item sold out, and the
\* cancellation has brought it back.
SoldOutThenCancelled ==
    \E c \in Conns :
        /\ Done(c, "cancel_order") /\ res[c].code = 200
        /\ req[c].oid = placed.oid /\ placed.qty = placed.quantity
        /\ preItems[c][placed.item].status = "sold"

\* the order a request names, as it was when the request arrived
PreOrder(c) == preOrders[c][CHOOSE k \in OrderIndexes(preOrders[c], req[c].oid) : TRUE]
PreOrderExists(c) == OrderIndexes(preOrders[c], req[c].oid) # {}
CodeHashesToStored(c) ==
    /\ PreOrderExists(c)
    /\ ~req[c].otp.isNone
    /\ Sha256Hex8(req[c].otp.s) = PreOrder(c).hashed_otp

\* C8: admin_complete_order sets an order 'completed' if and only if it is
\* 'in_transit' and the submitted code hashes to its hashed_otp, and changes
\* nothing else; with a wrong, empty or missing code nothing changes and the
\* failure is flashed.
OtpGate ==
    \A c \in Conns :
        Done(c, "admin_complete_order")
        => /\ items = preItems[c]
           /\ IF CodeHashesToStored(c) /\ PreOrder(c).order_status = "in_transit"
              THEN orders = [k \in 1..Len(preOrders[c]) |->
                                IF preOrders[c][k].order_id = req[c].oid
                                THEN [preOrders[c][k] EXCEPT !.order_status = "completed"]
                                ELSE preOrders[c][k]]
              ELSE orders = preOrders[c]
           /\ ~CodeHashesToStored(c) => res[c].outcome = "danger"

\* C8 witness: a wrong code was submitted for an order in transit.
WrongCodeRefused ==
    \E c \in Conns :
        /\ Done(c, "admin_complete_order") /\ PreOrderExists(c)
        /\ PreOrder(c).order_status = "in_transit"
        /\ req[c].otp = Str("4321") /\ res[c].outcome = "danger"

\* C9: admin_complete_order with the correct code on an order that is not
\* 'in_transit' reports a failure and leaves all state unchanged.
CompleteOutOfOrderFails ==
    \A c \in Conns :
        (/\ Done(c, "admin_complete_order")
         /\ CodeHashesToStored(c)
         /\ PreOrder(c).order_status # "in_transit")
        => Failed(c) /\ Unchanged(c)

\* C10: delete_listing by the owner fails and leaves the item and the orders
\* unchanged when an order of the item is not 'cancelled'; otherwise it
\* removes the item, and only the item.
DeleteLock ==
    \A c \in Conns :
        (/\ Done(c, "delete_listing")
         /\ req[c].item \in DOMAIN preItems[c]
         /\ preItems[c][req[c].item].seller_id = req[c].user)
        => IF \E k \in 1..Len(preOrders[c]) :
                 /\ preOrders[c][k].item_id = req[c].item
                 /\ preOrders[c][k].order_status # "cancelled"
           THEN Failed(c) /\ Unchanged(c)
           ELSE /\ res[c].code = 204
                /\ DOMAIN items = DOMAIN preItems[c] \ {req[c].item}
                /\ \A j \in DOMAIN items : items[j] = preItems[c][j]
                /\ orders = preOrders[c]

\* C10 witness: the listing went once its only order had been cancelled.
DeletedAfterCancel ==
    \E c \in Conns :
        /\ Done(c, "delete_listing") /\ res[c].code = 204
        /\ \E k \in 1..Len(orders) :
              orders[k].item_id = req[c].item /\ orders[k].order_status = "cancelled"

\* the status of order order_id in O ("" when O has no such order)
StatusOf(O, order_id) ==
    IF OrderIndexes(O, order_id) = {} THEN ""
    ELSE O[CHOOSE k \in OrderIndexes(O, order_id) : TRUE].order_status

\* C11: a one-line place_order for 1 unit of an available item with quantity
\* 4 owned by another user leaves the item with quantity 3 and the new order
\* 'pending'; the admin's mark-received moves a pending order to
\* 'in_transit'; admin_complete_order with a wrong code on an order in transit
\* reports a failure and leaves it 'in_transit'; with the correct code it
\* leaves it 'completed'. Each step starts in the state the one before it
\* ends in.
DeliverySequence ==
    \A c \in Conns :
        /\ (/\ Done(c, "place_order") /\ res[c].code = 200
            /\ req[c].lines = <<[id |-> DeliveryItem, qty |-> 1]>>
            /\ preItems[c][DeliveryItem].quantity = 4)
           => /\ items[DeliveryItem].quantity = 3
              /\ Len(orders) = Len(preOrders[c]) + 1
              /\ orders[Len(orders)].order_status = "pending"
              /\ orders[Len(orders)].item_id = DeliveryItem
        /\ (Done(c, "admin_mark_received") /\ StatusOf(preOrders[c], req[c].oid) = "pending")
           => StatusOf(orders, req[c].oid) = "in_transit"
        /\ (/\ Done(c, "admin_complete_order")
            /\ StatusOf(preOrders[c], req[c].oid) = "in_transit")
           => IF CodeHashesToStored(c)
              THEN StatusOf(orders, req[c].oid) = "completed"
              ELSE /\ res[c].outcome = "danger"
                   /\ StatusOf(orders, req[c].oid) = "in_transit"
                   /\ Unchanged(c)

\* C11 witness: the first order, placed against quantity 4, has gone through
\* the warehouse and is completed by its code, the Kettle at quantity 3.
DeliveredByCode ==
    \E c \in Conns :
        /\ Done(c, "admin_complete_order") /\ res[c].outcome = "success"
        /\ StatusOf(preOrders[c], req[c].oid) = "in_transit"
        /\ StatusOf(orders, req[c].oid) = "completed"
        /\ Len(orders) = 1 /\ items[DeliveryItem].quantity = 3

\* the edges of the order life cycle: pending -> in_transit -> completed,
\* and cancellation from pending and from in_transit
StatusEdges ==
    {<<"pending", "in_transit">>, <<"in_transit", "completed">>,
     <<"pending", "cancelled">>, <<"in_transit", "cancelled">>}

\* C12: whatever request has just finished, every order that existed when it
\* arrived and still exists has the status it had or one that an edge of the
\* life cycle leads to; in particular no order has gone from 'pending' to
\* 'completed'.
StatusChangesAlongEdges ==
    \A c \in Conns :
        req[c].pc = "done"
        => \A k \in 1..Len(preOrders[c]) :
              LET old == preOrders[c][k].order_status
                  new == StatusOf(orders, preOrders[c][k].order_id)
              IN  new = "" \/ new = old \/ <<old, new>> \in StatusEdges

\* C13: cancel_order, mark_received, the admin's mark-received and
\* admin_complete_order on an order that is 'completed' or 'cancelled' leave
\* the orders and the items as they were, and cancel_order and mark_received
\* answer with an error.
TerminalStatusesStay ==
    \A c \in Conns :
        (/\ req[c].pc = "done"
         /\ req[c].op \in {"cancel_order", "mark_received", "admin_mark_received",
                           "admin_complete_order"}
         /\ StatusOf(preOrders[c], req[c].oid) \in {"completed", "cancelled"})
        => /\ Unchanged(c)
           /\ req[c].op \in {"cancel_order", "mark_received"} => res[c].outcome = "error"

\* C13 witness: the buyer's cancel_order of a completed order was refused.
CompletedNotCancelled ==
    \E c \in Conns :
        /\ Done(c, "cancel_order") /\ res[c].code = 400
        /\ StatusOf(preOrders[c], req[c].oid) = "completed"
        /\ PreOrder(c).buyer_id = req[c].user

\* C14: every order row has quantity_ordered >= 1, and a place_order whose
\* cart has a line with qty 0 or below leaves the orders and the stock as
\* they were.
OrderedAtLeastOne ==
    /\ \A k \in 1..Len(orders) : orders[k].quantity_ordered >= 1
    /\ \A k \in 1..Len(txOrders) : txOrders[k].quantity_ordered >= 1
    /\ \A c \in Conns :
          (/\ Done(c, "place_order")
           /\ \E k \in 1..Len(req[c].lines) : req[c].lines[k].qty <= 0)
          => Unchanged(c)

\* two versions of an order row that differ at most in order_status
SameButStatus(old, new) == [old EXCEPT !.order_status = new.order_status] = new

\* what the rows of O become in P: a row of P with the order_id of a row of O
\* is that row, its order_status apart
OnlyStatusUpdated(O, P) ==
    \A k \in 1..Len(O), j \in 1..Len(P) :
        O[k].order_id = P[j].order_id => SameButStatus(O[k], P[j])

\* the listings' prices never change (no route updates items.price), so the
\* unit price at placement is the price the item was listed at
PriceIsUnitPriceTimesQuantity(O) ==
    \A k \in 1..Len(O) :
        O[k].price = SeedItems[O[k].item_id].price * O[k].quantity_ordered

\* C15: every order's price is the item's unit price times quantity_ordered,
\* and no step of any request changes an existing order's price,
\* quantity_ordered, buyer_id, seller_id, item_id, otp or hashed_otp: only
\* order_status is updated.
OrderFieldsFrozen ==
    /\ [](PriceIsUnitPriceTimesQuantity(orders) /\ PriceIsUnitPriceTimesQuantity(txOrders))
    /\ [][OnlyStatusUpdated(orders, orders') /\ OnlyStatusUpdated(txOrders, txOrders')]_vars

\* C15 witness: an order for two Study Lamps at 450 has been cancelled and
\* still carries the price 900.
CancelledOrderKeepsPrice ==
    \E k \in 1..Len(orders) :
        /\ orders[k].order_status = "cancelled"
        /\ orders[k].quantity_ordered = 2 /\ orders[k].price = 900

\* C16: after a successful place_order on a cart of n lines the orders are
\* those there were followed by n new rows, the k-th for the item and the
\* quantity of the k-th line (two lines on one item giving two rows), each
\* the buyer's, 'pending', with the hash of its own code; no two orders share
\* an order_id.
OneOrderPerLine ==
    \A c \in Conns :
        (Done(c, "place_order") /\ res[c].code = 200)
        => LET n == Len(req[c].lines)
               base == Len(preOrders[c])
           IN  /\ n >= 1
               /\ Len(orders) = base + n
               /\ \A k \in 1..base : orders[k] = preOrders[c][k]
               /\ \A k \in 1..n :
                     /\ orders[base + k].item_id = req[c].lines[k].id
                     /\ orders[base + k].quantity_ordered = req[c].lines[k].qty
                     /\ orders[base + k].buyer_id = req[c].user
                     /\ orders[base + k].order_status = "pending"
                     /\ orders[base + k].hashed_otp = Sha256Hex8(orders[base + k].otp)
               /\ \A j, k \in 1..Len(orders) :
                     orders[j].order_id = orders[k].order_id => j = k

\* C16 witness: a cart with two lines of one Study Lamp each has become two
\* orders.
SameItemTwice ==
    \E c \in Conns :
        /\ Done(c, "place_order") /\ res[c].code = 200
        /\ req[c].lines = <<[id |-> 3, qty |-> 1], [id |-> 3, qty |-> 1]>>
        /\ Len(orders) = 2

\* C17: the response to a successful place_order carries one receipt per
\* cart line, the k-th with the order id, the price charged and the plaintext
\* code of the order created for the k-th line.
ReceiptPerLine ==
    \A c \in Conns :
        (Done(c, "place_order") /\ res[c].code = 200)
        => LET n == Len(req[c].lines)
               base == Len(orders) - n
           IN  /\ Len(Receipts(res[c])) = n
               /\ \A k \in 1..n :
                     /\ Receipts(res[c])[k].order_id = orders[base + k].order_id
                     /\ Receipts(res[c])[k].price = orders[base + k].price
                     /\ Receipts(res[c])[k].otp = orders[base + k].otp

\* C18: place_order with a cart that is empty, missing or not a list is
\* answered 400 'Cart is invalid or empty' and leaves the orders and the items
\* as they were.
InvalidCartRefused ==
    \A c \in Conns :
        (Done(c, "place_order") /\ req[c].shape \in {"empty", "malformed"})
        => /\ res[c] = Json(400, "Cart is invalid or empty")
           /\ Unchanged(c)

\* C19: a successful place_order of one line for q units of an item with
\* quantity Q leaves that item with quantity Q - q, 'sold' if Q - q <= 0 and
\* 'available' otherwise, its other columns and every other item unchanged.
SinglePlacementDecrements ==
    \A c \in Conns :
        (Done(c, "place_order") /\ res[c].code = 200 /\ Len(req[c].lines) = 1)
        => LET i == req[c].lines[1].id
               left == preItems[c][i].quantity - req[c].lines[1].qty
           IN  /\ DOMAIN items = DOMAIN preItems[c]
               /\ items[i] = [preItems[c][i] EXCEPT
                                 !.quantity = left,
                                 !.status = IF left <= 0 THEN "sold" ELSE "available"]
               /\ \A j \in DOMAIN items \ {i} : items[j] = preItems[c][j]

\* C19 witness: both Study Lamps went in one line, and the listing is sold
\* at quantity 0.
WholeStockInOneLine ==
    \E c \in Conns :
        /\ Done(c, "place_order") /\ res[c].code = 200
        /\ req[c].lines = <<[id |-> 3, qty |-> 2]>>
        /\ preItems[c][3].quantity = 2
        /\ items[3].quantity = 0 /\ items[3].status = "sold"

\* what the claim requires of a cart line: the item exists, is 'available',
\* has at least the quantity asked for, and is not the buyer's own
Orderable(I, line, buyer) ==
    /\ line.id \in DOMAIN I
    /\ I[line.id].status = "available"
    /\ I[line.id].quantity >= line.qty
    /\ I[line.id].seller_id # buyer

RECURSIVE ItemsBeforeLine(_, _, _)
\* the items as the k-th line of a cart finds them: I after the stock trigger
\* has run for the k - 1 lines before it
ItemsBeforeLine(I, lines, k) ==
    IF k = 1 THEN I
    ELSE after_order_insert_update_item_stock(
             ItemsBeforeLine(I, lines, k - 1),
             [item_id |-> lines[k - 1].id, quantity_ordered |-> lines[k - 1].qty])

\* the lines read by a finished place_order, all but the last of a failed one
\* having succeeded: each line that succeeded was orderable; the line that
\* failed was not, or its order_id was taken and collisions are excused
LineOutcomes(c, collisionExcused) ==
    LET lines == req[c].lines
        n == Len(lines)
        before(k) == ItemsBeforeLine(preItems[c], lines, k)
    IN  /\ \A k \in 1..(n - 1) : Orderable(before(k), lines[k], req[c].user)
        /\ n >= 1 =>
              IF res[c].code = 200
              THEN Orderable(before(n), lines[n], req[c].user)
              ELSE \/ ~Orderable(before(n), lines[n], req[c].user)
                   \/ collisionExcused /\ res[c].msg = "duplicate_order_id"

\* C20: a cart line succeeds if and only if the item exists, is 'available',
\* has at least the requested quantity and is not owned by the buyer.
LineSucceedsIffOrderable ==
    \A c \in Conns :
        (Done(c, "place_order") /\ req[c].shape = "list") => LineOutcomes(c, FALSE)

\* C21: check_otp is true for the code and the hash of every pair that
\* generate_hashed_otp returns; false whenever the submitted code or the
\* stored hash is empty or missing; and false for the hash of a pair and any
\* other code of 1000..9999.
OtpRoundTrip ==
    \A c \in Conns :
        Done(c, "check_otp")
        => LET submitted_otp == req[c].otp
               stored_hash == res[c].msg
               accepted == res[c].outcome = "true"
           IN  /\ (\E p \in GeneratedPairs :
                      submitted_otp = Str(p.otp) /\ stored_hash = p.hashed) => accepted
               /\ (submitted_otp.isNone \/ submitted_otp.s = "" \/ stored_hash = "")
                     => ~accepted
               /\ (\E p \in GeneratedPairs :
                      /\ stored_hash = p.hashed
                      /\ submitted_otp \in {Str(x) : x \in SampleCodes \ {p.otp}}) => ~accepted

\* C21 witness: the code next to the generated one was refused.
NeighbourCodeRefused ==
    \E c \in Conns :
        /\ Done(c, "check_otp") /\ res[c].outcome = "false"
        /\ req[c].otp = Str("1235") /\ res[c].msg = Sha256Hex8("1234")

\* C22: no two order rows, committed or in an open transaction, share an
\* order_id; a place_order that failed because generate_order_id returned an
\* identifier already in the table answered with an error and left the
\* orders and the items as they were, the lines inserted before it rolled back.
OrderIdsUnique ==
    /\ \A j, k \in 1..Len(orders) : orders[j].order_id = orders[k].order_id => j = k
    /\ \A j, k \in 1..Len(txOrders) : txOrders[j].order_id = txOrders[k].order_id => j = k
    /\ \A c \in Conns :
          (Done(c, "place_order") /\ res[c].msg = "duplicate_order_id")
          => /\ res[c].code = 400
             /\ Unchanged(c)
             /\ writer # c /\ txOrders = orders /\ txItems = items

\* C22 witness: the second line of a cart drew the identifier of an order
\* already in the table, after the first line had been inserted.
SecondLineDrewTakenId ==
    \E c \in Conns :
        /\ Done(c, "place_order") /\ res[c].msg = "duplicate_order_id"
        /\ Len(req[c].lines) = 2 /\ Len(orders) >= 1

\* C23: deleting an order row removes that row and nothing else from the
\* orders; if the order was not 'cancelled' its item gets quantity_ordered
\* back and becomes 'available'; if it was 'cancelled', whose units
\* cancel_order had already returned, the items stay as they were.
DeleteCompensatesOnce ==
    \A c \in Conns :
        Done(c, "delete_order")
        => LET old == PreOrder(c)
           IN  /\ orders = SelectSeq(preOrders[c], LAMBDA row : row.order_id # req[c].oid)
               /\ Len(orders) = Len(preOrders[c]) - 1
               /\ DOMAIN items = DOMAIN preItems[c]
               /\ \A i \in DOMAIN items :
                     items[i] = IF i = old.item_id /\ old.order_status # "cancelled"
                                THEN [preItems[c][i] EXCEPT
                                        !.quantity = @ + old.quantity_ordered,
                                        !.status = "available"]
                                ELSE preItems[c][i]

\* C23 witness: an order for both Study Lamps was cancelled and then deleted;
\* the listing is back at quantity 2, not 4.
CancelledThenDeleted ==
    \E c \in Conns :
        /\ Done(c, "delete_order") /\ PreOrder(c).order_status = "cancelled"
        /\ PreOrder(c).item_id = 3 /\ PreOrder(c).quantity_ordered = 2
        /\ orders = <<>> /\ 3 \in DOMAIN items /\ items[3].quantity = 2

\* C24: cancel_order and mark_received by a user who is not the order's
\* buyer, its seller included, or for an order id that does not exist, answer
\* with an error and leave the orders and the items as they were.
OnlyTheBuyerActs ==
    \A c \in Conns :
        (/\ req[c].pc = "done" /\ req[c].op \in {"cancel_order", "mark_received"}
         /\ (PreOrderExists(c) => PreOrder(c).buyer_id # req[c].user))
        => /\ res[c].outcome = "error"
           /\ Unchanged(c)

\* C24 witness: the seller of a pending order tried to cancel it.
SellerCannotCancel ==
    \E c \in Conns :
        /\ Done(c, "cancel_order") /\ res[c].code = 404
        /\ PreOrderExists(c) /\ PreOrder(c).seller_id = req[c].user
        /\ PreOrder(c).order_status = "pending"

\* C25: delete_listing by a user who is not the item's seller answers with
\* an error and leaves the items and the orders as they were, whether the
\* item has orders or not.
OnlyTheSellerDeletes ==
    \A c \in Conns :
        (/\ Done(c, "delete_listing")
         /\ req[c].item \in DOMAIN preItems[c]
         /\ preItems[c][req[c].item].seller_id # req[c].user)
        => /\ res[c].outcome = "error"
           /\ Unchanged(c)

\* C25 witness: the buyer of a listing's only order, since cancelled, tried
\* to delete the listing, which its seller could have deleted.
BuyerCannotDelete ==
    \E c \in Conns :
        /\ Done(c, "delete_listing") /\ res[c].code = 404
        /\ req[c].item \in DOMAIN items
        /\ Len(orders) = 1 /\ orders[1].item_id = req[c].item
        /\ orders[1].buyer_id = req[c].user /\ orders[1].order_status = "cancelled"

RECURSIVE HeldQuantity(_, _, _)
\* the units of item_id that the first k rows of O order and have not given
\* back: those of the orders that are not cancelled
HeldQuantity(O, k, item_id) ==
    IF k = 0 THEN 0
    ELSE HeldQuantity(O, k - 1, item_id)
         + (IF O[k].item_id = item_id /\ O[k].order_status # "cancelled"
            THEN O[k].quantity_ordered ELSE 0)

\* C26: under every interleaving of cancel_order requests, two for the same
\* order included, an order's units are returned to the stock at most once:
\* the item's quantity plus the units of its orders that are not cancelled
\* never exceeds the quantity it was listed with.
ReleasedAtMostOnce ==
    items[ConcItem].quantity + HeldQuantity(orders, Len(orders), ConcItem)
        <= SeedItems[ConcItem].quantity

\* C27: under every interleaving of cancel_order with mark_received and the
\* admin routes, no step takes an order from 'completed' to 'cancelled' or
\* from 'cancelled' to 'completed', and after every step the stock that has
\* been given back is that of cancelled orders only: the item's quantity plus
\* the units of its orders that are not cancelled is at most the quantity it
\* was listed with.
FinalStatusesExclusive ==
    [][/\ \A k \in 1..Len(orders) :
             orders[k].order_status \in {"completed", "cancelled"}
             => orders'[k].order_status = orders[k].order_status
       /\ items'[ConcItem].quantity + HeldQuantity(orders', Len(orders'), ConcItem)
             <= SeedItems[ConcItem].quantity]_vars

\* C28: in every reachable state, a delete_listing by the seller running
\* between the statements of a place_order on the same item included, every
\* order that is not cancelled names an item that is still in the items table.
OrdersReferenceItems ==
    \A k \in 1..Len(orders) :
        orders[k].order_status # "cancelled" => orders[k].item_id \in DOMAIN items

\* the quantity of item_id on a catalog page: 0 when the page does not list it
ListedQuantity(rows, item_id) ==
    IF \E k \in 1..Len(rows) : rows[k].item_id = item_id
    THEN rows[CHOOSE k \in 1..Len(rows) : rows[k].item_id = item_id].quantity
    ELSE 0

\* the place_order of connection c ends with this step
PlacementEnds(c) ==
    /\ req[c].op = "place_order" /\ req[c].pc # "done"
    /\ req'[c].pc = "done"

\* C29: no other request sees part of a cart. A catalog page shows the stock
\* that the committed orders leave, none of the lines of an open cart; the
\* stock SELECT of another placement succeeds or fails on the committed stock;
\* the committed orders and stock change only in the step that ends a
\* successful place_order, and then by all the lines of its cart together;
\* a failing place_order changes nothing.
CartVisibleAtCommitOnly ==
    /\ [](\A d \in Conns :
            Done(d, "home")
            => /\ res[d].items = HomeRows(preItems[d])
               /\ ListedQuantity(res[d].items, ConcItem)
                    = SeedItems[ConcItem].quantity
                      - OrderedQuantity(preOrders[d], Len(preOrders[d]), ConcItem))
    /\ [][/\ \A d \in Conns :
                (req[d].op = "place_order" /\ req[d].pc = "line" /\ req'[d].pc # "line"
                 /\ writer # d)
                => ((req'[d].pc = "insert")
                    <=> SelectAvailable(items, req'[d].item, req'[d].qty))
          /\ \A c \in Conns :
                (PlacementEnds(c) /\ res'[c].code = 200)
                => /\ Len(orders') = Len(orders) + Len(req[c].lines)
                   /\ SubSeq(orders', 1, Len(orders)) = orders
                   /\ \A k \in 1..Len(req[c].lines) :
                         /\ orders'[Len(orders) + k].item_id = req[c].lines[k].id
                         /\ orders'[Len(orders) + k].quantity_ordered = req[c].lines[k].qty
                   /\ items'[ConcItem].quantity = items[ConcItem].quantity - req[c].asked
          /\ (~ \E c \in Conns : PlacementEnds(c) /\ res'[c].code = 200)
                => items' = items /\ orders' = orders]_vars

\* C29 witness: a cart has one line inserted and not committed, the
\* transaction holding one Study Lamp less than the table, and the catalog
\* page of the other connection shows both.
ReadDuringOpenCart ==
    \E c, d \in Conns :
        /\ c # d /\ writer = c
        /\ req[c].op = "place_order" /\ req[c].pc = "line" /\ req[c].n = 1
        /\ txItems[ConcItem].quantity < items[ConcItem].quantity
        /\ Done(d, "home")
        /\ ListedQuantity(res[d].items, ConcItem) = SeedItems[ConcItem].quantity

\* C30: in v1, under every interleaving of the SELECT and INSERT steps of
\* two concurrent place_order requests on one item, the item's quantity never
\* drops below 0.
V1QuantityNeverNegative ==
    \A i \in DOMAIN items : items[i].quantity >= 0

\* the quantity of every item of I taken together
TotalQuantity(I) == SumOver([i \in DOMAIN I |-> I[i].quantity], DOMAIN I)

\* a cart line the stock of I can serve: an 'available' item of that name
\* with at least qty units
LegacyServable(I, line) ==
    \E i \in DOMAIN I :
        I[i].name = line.id /\ I[i].status = "available" /\ I[i].quantity >= line.qty

\* C31: a legacy place_order whose cart has a line (with a name and qty >= 1)
\* for more than the stock, or for an item that is not 'available', fails and
\* leaves the orders as they were; and the orders a place_order created are
\* for units that were deducted: the stock fell by the quantities of the
\* lines that created an order.
LegacyOrderOnlyWhenDeducted ==
    \A c \in Conns :
        Done(c, "legacy_place_order")
        => /\ (\E k \in 1..Len(req[c].lines) :
                  /\ req[c].lines[k].id # "" /\ req[c].lines[k].qty >= 1
                  /\ ~LegacyServable(preItems[c], req[c].lines[k]))
              => Failed(c) /\ orders = preOrders[c]
           /\ (Len(orders) > Len(preOrders[c]))
              => TotalQuantity(preItems[c]) - TotalQuantity(items) = req[c].asked

\* C32: the admin's mark-received sets an order 'in_transit' only when it is
\* 'pending', changing nothing else; for an order in any other status, or an
\* order id that does not exist, the orders and the items stay as they were
\* and the answer reports a failure.
AdminMarkReceivedOnlyFromPending ==
    \A c \in Conns :
        Done(c, "admin_mark_received")
        => IF StatusOf(preOrders[c], req[c].oid) = "pending"
           THEN /\ StatusOf(orders, req[c].oid) = "in_transit"
                /\ items = preItems[c]
                /\ OnlyStatusUpdated(preOrders[c], orders)
           ELSE Unchanged(c) /\ Failed(c)

StatusRoutes == {"admin_mark_received", "admin_complete_order", "mark_received"}

\* C33: the admin's mark-received, admin_complete_order and the buyer's
\* mark_received are status updates only: when one has finished, every item
\* has the quantity and status it had, there are the same orders, every order
\* other than the one named is as it was, and the one named differs at most
\* in its order_status.
StatusUpdateOnly ==
    \A c \in Conns :
        (req[c].pc = "done" /\ req[c].op \in StatusRoutes)
        => /\ items = preItems[c]
           /\ Len(orders) = Len(preOrders[c])
           /\ \A k \in 1..Len(orders) :
                 IF orders[k].order_id = req[c].oid
                 THEN SameButStatus(preOrders[c][k], orders[k])
                 ELSE orders[k] = preOrders[c][k]

\* C33 witness: the buyer confirmed one of two pending orders; it is
\* 'completed', the other is still 'pending' and the stock is as it was.
OtherOrderStaysPending ==
    \E c \in Conns :
        /\ Done(c, "mark_received") /\ res[c].code = 200
        /\ Len(orders) = 2
        /\ \A k \in 1..2 : preOrders[c][k].order_status = "pending"
        /\ \E k, j \in 1..2 :
              /\ orders[k].order_id = req[c].oid /\ orders[k].order_status = "completed"
              /\ j # k /\ orders[j].order_status = "pending"
        /\ items = preItems[c]

\* C34: with one request at a time from a store with no orders (place_order
\* with every qty >= 1, cancel_order, mark_received, the admin routes,
\* deletions of orders), a step changes an item's quantity only when it
\* belongs to a place_order, which lowers it, or to cancel_order or the
\* deletion of an order, which raise it; and every item's quantity plus the
\* quantity_ordered of its orders that exist and are not cancelled is the
\* quantity it was listed with.
StockMovesOnlyWithOrders ==
    /\ [](\A i \in DOMAIN items :
            items[i].quantity + HeldQuantity(orders, Len(orders), i) = SeedItems[i].quantity)
    /\ [][\A i \in DOMAIN items \cap DOMAIN items' :
            items'[i].quantity # items[i].quantity
            => \E c \in Conns :
                  \/ req'[c].op = "place_order" /\ items'[i].quantity < items[i].quantity
                  \/ /\ req'[c].op \in {"cancel_order", "delete_order"}
                     /\ items'[i].quantity > items[i].quantity]_vars

\* C34 witness: of two orders for one Study Lamp each, one was cancelled and
\* one completed; one lamp is in stock, one is held by the completed order.
OneUnitBackOneUnitOut ==
    /\ Len(orders) = 2
    /\ \A k \in 1..2 : orders[k].item_id = 3 /\ orders[k].quantity_ordered = 1
    /\ \E k, j \in 1..2 :
          orders[k].order_status = "cancelled" /\ orders[j].order_status = "completed"
    /\ 3 \in DOMAIN items /\ items[3].quantity = 1

\* C35: every item that sell has just created has a quantity that is not
\* negative and is 'sold' exactly when its quantity is <= 0.
SellCreatesValidItem ==
    \A c \in Conns :
        (Done(c, "sell") /\ req[c].item \in DOMAIN items)
        => /\ items[req[c].item].quantity >= 0
           /\ (items[req[c].item].status = "sold") <=> (items[req[c].item].quantity <= 0)

RECURSIVE LinesQuantity(_, _)
\* q1 + ... + qk over the first k lines of a cart
LinesQuantity(lines, k) ==
    IF k = 0 THEN 0 ELSE LinesQuantity(lines, k - 1) + lines[k].qty

\* the lines a finished place_order has read all name one item, which was
\* 'available' and not the buyer's when the request arrived, each with qty >= 1
OneItemCart(c) ==
    /\ Done(c, "place_order") /\ req[c].shape = "list"
    /\ Len(req[c].lines) >= 1
    /\ \A k \in 1..Len(req[c].lines) :
          req[c].lines[k].id = req[c].lines[1].id /\ req[c].lines[k].qty >= 1
    /\ req[c].lines[1].id \in DOMAIN preItems[c]
    /\ preItems[c][req[c].lines[1].id].status = "available"
    /\ preItems[c][req[c].lines[1].id].seller_id # req[c].user

\* C36: a cart whose lines all name one orderable item, requesting q1, ...,
\* qk, succeeds if and only if q1 + ... + qk is at most the item's stock, and
\* then leaves the stock less that sum; a cart that failed had read lines
\* summing to more than the stock.
CartSumDecides ==
    \A c \in Conns :
        OneItemCart(c)
        => LET i == req[c].lines[1].id
               total == LinesQuantity(req[c].lines, Len(req[c].lines))
           IN  /\ (res[c].code = 200) <=> (total <= preItems[c][i].quantity)
               /\ res[c].code = 200 => items[i].quantity = preItems[c][i].quantity - total

\* the buyer's cancel_order for the k-th order passes its checks
CancelBegins(c, k) ==
    /\ CancelOrderSelect(c)
    /\ req'[c].pc = "write" /\ req'[c].oid = orders[k].order_id
    /\ req'[c].user = orders[k].buyer_id

\* the buyer's mark_received for the k-th order passes its checks
MarkReceivedBegins(c, k) ==
    /\ MarkReceivedSelect(c)
    /\ req'[c].pc = "write" /\ req'[c].oid = orders[k].order_id
    /\ req'[c].user = orders[k].buyer_id

\* C37: no order is stuck and every operation ends. Whenever an order is
\* 'pending' or 'in_transit' and no request is running, the buyer's
\* cancel_order and the buyer's mark_received for it both pass their checks;
\* a cancel_order that has answered 200 has left its order 'cancelled' and a
\* mark_received that has answered 200 has left it 'completed'; and every
\* request that has begun, a place_order over its cart included, reaches its
\* answer.
NoOrderStuck ==
    /\ [](\A c \in SeqConns : \A k \in 1..Len(orders) :
            (orders[k].order_status \in {"pending", "in_transit"} /\ Free(c))
            => ENABLED CancelBegins(c, k) /\ ENABLED MarkReceivedBegins(c, k))
    /\ [](\A c \in SeqConns :
            /\ (Done(c, "cancel_order") /\ res[c].code = 200)
               => StatusOf(orders, req[c].oid) = "cancelled"
            /\ (Done(c, "mark_received") /\ res[c].code = 200)
               => StatusOf(orders, req[c].oid) = "completed")
    /\ \A c \in SeqConns :
          (req[c].pc \notin {"idle", "done"}) ~> (req[c].pc = "done")

\* C37 witness: the buyer cancelled an order that was in transit.
CancelledInTransit ==
    \E c \in Conns :
        /\ Done(c, "cancel_order") /\ res[c].code = 200
        /\ PreOrderExists(c) /\ PreOrder(c).order_status = "in_transit"
        /\ StatusOf(orders, req[c].oid) = "cancelled"

\* C38: the stock trigger fires for every inserted order row whatever its
\* order_status: an order inserted as 'cancelled' lowers the item's quantity
\* by its quantity_ordered like any other; cancel_order for a cancelled order
\* is refused and changes nothing; and deleting a cancelled order leaves
\* every item as it was, so that quantity is never returned.
InsertedCancelledKeepsStock ==
    \A c \in Conns :
        /\ (Done(c, "seed_data") /\ res[c].outcome = "ok")
           => /\ items[req[c].item].quantity
                   = preItems[c][req[c].item].quantity - req[c].qty
              /\ Len(orders) = Len(preOrders[c]) + 1
              /\ orders[Len(orders)].order_status = res[c].msg
        /\ (/\ Done(c, "cancel_order") /\ PreOrderExists(c)
            /\ PreOrder(c).order_status = "cancelled")
           => Failed(c) /\ Unchanged(c)
        /\ (Done(c, "delete_order") /\ PreOrder(c).order_status = "cancelled")
           => items = preItems[c]

\* C38 witness: an order inserted as 'cancelled' has been deleted; no order
\* is left and the book is one unit short of the 3 it was listed with.
SeededUnitLost ==
    \E c \in Conns :
        /\ Done(c, "delete_order") /\ PreOrder(c).order_status = "cancelled"
        /\ PreOrder(c).quantity_ordered = 1
        /\ orders = <<>>
        /\ items[SeedBook].quantity = BookItems[SeedBook].quantity - 1

=============================================================================
